---- MODULE Spec2Model ----
(***************************************************************************)
(* A model of mpl_interactions/pyplot.py: interactive_plot,                *)
(* interactive_hist, interactive_scatter and interactive_imshow, each a    *)
(* constructor that builds an artist on a matplotlib Axes and registers an *)
(* update(params, indices) callback with the controls.                     *)
(*                                                                         *)
(* The Axes is modelled by what the four functions read and write of it:   *)
(* the x and y view limits, the two autoscale flags (set_xlim/set_ylim     *)
(* are called with their default auto=False, which switches the axis'      *)
(* autoscaling off; autoscale_view only rescales an axis whose flag is     *)
(* on), the data limits and the title.  An array is modelled by its extent *)
(* <<lo, hi>>; autoscaling is modelled with zero margins.  A user function *)
(* is an input: its result is drawn afresh on every call.                  *)
(***************************************************************************)
EXTENDS Integers, Sequences, FiniteSets, TLC

VARIABLES
    called,     \* which constructor ran: "none" before any call
    outcome,    \* "pending", "controls", "None" or "ValueError"
    call,       \* the arguments of the call
    params,     \* the params last handed out by the controls (name -> value)
    ax,         \* the Axes: xlim, ylim, autoscalex_on, autoscaley_on, dataLim, title
    plt,        \* closure of interactive_plot and its Line2D
    hist,       \* closure of interactive_hist and its PatchCollection
    sc,         \* closure of interactive_scatter, its cache and its artist
    im          \* closure of interactive_imshow and its AxesImage

vars == <<called, outcome, call, params, ax, plt, hist, sc, im>>

-----------------------------------------------------------------------------
(* Bounds *)

\* data coordinates are the even numbers 0, 2, .., 2 * MaxData
MaxData == 1
\* the longest positional argument list tried
MaxArgs == 4

DataVals == {2 * i : i \in 0..MaxData}
\* the two positions of a slider
ParamVals == {0, 1}

\* the extents <<lo, hi>> an array can have
Extents == {e \in DataVals \X DataVals : e[1] <= e[2]}
\* the tuple a caller passes as xlim / ylim: it differs from the limits of a
\* fresh Axes and lies strictly inside the widest data extent
LimTuples == {<<1, 2>>}

-----------------------------------------------------------------------------
(* Values *)

\* Python's None, as a title
None == [kind |-> "None"]
\* title = "tau={tau}"
TauTitle == [kind |-> "str", tokens |-> <<[lit |-> "tau="], [field |-> "tau"]>>]
Titles == {None, TauTitle}

\* str.format(**params): a literal piece is copied, a replacement field is
\* replaced by the string of the value params holds under the field's name
format(t, p) ==
    [i \in DOMAIN t.tokens |->
        IF "field" \in DOMAIN t.tokens[i]
        THEN ToString(p[t.tokens[i].field])
        ELSE t.tokens[i].lit]

\* the names the replacement fields of a title refer to
title_fields(t) ==
    IF t = None THEN {}
    ELSE {t.tokens[i].field : i \in {j \in DOMAIN t.tokens : "field" \in DOMAIN t.tokens[j]}}

\* a fresh Axes: limits (0, 1), autoscaling on, null data limits, no title
NullLim == [x |-> <<>>, y |-> <<>>]
DefaultLims == <<0, 1>>
FreshAxes == [xlim |-> DefaultLims, ylim |-> DefaultLims,
              autoscalex_on |-> TRUE, autoscaley_on |-> TRUE,
              dataLim |-> NullLim, title |-> <<>>]

\* a title that is formatted once and never set again
set_title_never(A, t, p) == A

\* "if title is not None: ax.set_title(title.format(**params))"
set_title(A, t, p) == IF t # None THEN [A EXCEPT !.title = format(t, p)] ELSE A

\* ax.set_xlim(lims) / ax.set_ylim(lims): auto=False switches autoscaling off
set_xlim(A, lims) == [A EXCEPT !.xlim = lims, !.autoscalex_on = FALSE]
set_ylim(A, lims) == [A EXCEPT !.ylim = lims, !.autoscaley_on = FALSE]

\* ax.autoscale_view(scalex=.., scaley=..): an axis is rescaled to its data
\* limits when it is asked for and its autoscale flag is on (an axis without
\* data limits keeps its limits)
autoscale_view(A, scalex, scaley) ==
    [A EXCEPT
       !.xlim = IF scalex /\ A.autoscalex_on /\ A.dataLim.x # <<>> THEN A.dataLim.x ELSE @,
       !.ylim = IF scaley /\ A.autoscaley_on /\ A.dataLim.y # <<>> THEN A.dataLim.y ELSE @]

\* ax.plot(..) and ax.relim(): the data limits become the extents of the line
relim(A, x, y) == [A EXCEPT !.dataLim = [x |-> x, y |-> y]]

-----------------------------------------------------------------------------
(* interactive_plot *)

plot_kwargs_list ==
    {"linewidth", "linestyle", "color", "marker", "markersize",
     "markeredgewidth", "markeredgecolor", "markerfacecolor",
     "markerfacecoloralt", "fillstyle", "antialiased", "dash_capstyle",
     "solid_capstyle", "dash_joinstyle", "solid_joinstyle", "pickradius",
     "drawstyle", "markevery", "label"}

\* Line2D properties that matplotlib.pyplot.plot accepts as keyword
\* arguments and that plot_kwargs_list ("partially taken" from Line2D) omits
line2d_other_kwargs == {"alpha", "zorder"}

\* the keyword arguments matplotlib.pyplot.plot accepts
plot_accepted_kwargs == plot_kwargs_list \cup line2d_other_kwargs

\* the keyword names a caller passes in the model
KwargKeys == {"color", "alpha", "tau"}

\* for k in plot_kwargs_list: if k in kwargs: plot_kwargs[k] = kwargs.pop(k)
pop_plot_kwargs(kwargs) ==
    [plot_kwargs |-> {k \in plot_kwargs_list : k \in kwargs},
     kwargs      |-> {k \in kwargs : k \notin plot_kwargs_list}]

\* a positional argument: its position in the call and whether it is a str
Arg(i, k) == [pos |-> i, kind |-> k]
NoArg == [pos |-> 0, kind |-> "None"]

\* the positional argument lists: data, optionally followed by a format string
ArgLists ==
    {[i \in 1..n |-> Arg(i, "data")] : n \in 0..MaxArgs} \cup
    {[i \in 1..n |-> Arg(i, IF i = n THEN "str" ELSE "data")] : n \in 2..MaxArgs}

\* a chain that takes two arguments as (x, y) whatever the second is
bind_args_ignores_str(args) ==
    IF Len(args) = 0 THEN [status |-> "None"]
    ELSE IF Len(args) = 1
    THEN [status |-> "ok", x_and_y |-> FALSE, x |-> NoArg, y |-> args[1], fmt |-> NoArg]
    ELSE IF Len(args) = 2
    THEN [status |-> "ok", x_and_y |-> TRUE, x |-> args[1], y |-> args[2], fmt |-> NoArg]
    ELSE IF Len(args) = 3
    THEN [status |-> "ok", x_and_y |-> TRUE, x |-> args[1], y |-> args[2], fmt |-> args[3]]
    ELSE [status |-> "ValueError"]

\* the if / elif chain on len(args)
bind_args(args) ==
    IF Len(args) = 0 THEN [status |-> "None"]
    ELSE IF Len(args) = 1
    THEN [status |-> "ok", x_and_y |-> FALSE, x |-> NoArg, y |-> args[1], fmt |-> NoArg]
    ELSE IF Len(args) = 2
    THEN IF args[2].kind = "str"
         THEN [status |-> "ok", x_and_y |-> FALSE, x |-> NoArg, y |-> args[1], fmt |-> args[2]]
         ELSE [status |-> "ok", x_and_y |-> TRUE, x |-> args[1], y |-> args[2], fmt |-> NoArg]
    ELSE IF Len(args) = 3
    THEN [status |-> "ok", x_and_y |-> TRUE, x |-> args[1], y |-> args[2], fmt |-> args[3]]
    ELSE [status |-> "ValueError"]

\* a stretch rule that forgets the limits held before the update
stretch_lims_forgets_cur(new_lims, cur_lims) == new_lims

\* the stretch rule of update, lines 195-199 (y) and 204-208 (x)
stretch_lims(new_lims, cur_lims) ==
    <<IF new_lims[1] < cur_lims[1] THEN new_lims[1] ELSE cur_lims[1],
      IF new_lims[2] > cur_lims[2] THEN new_lims[2] ELSE cur_lims[2]>>

\* an xlim / ylim argument: a Python str or a tuple of two numbers
Str(s) == [str |-> s]
Tup(t) == [tuple |-> t]
\* isinstance(lim, str)
isinstance_str(lim) == "str" \in DOMAIN lim
\* lim == s for a str literal s: a tuple never equals a str
py_eq(lim, s) == isinstance_str(lim) /\ lim.str = s

\* lines 192-200 of update: the y axis, cur_ylims read before ax.relim()
update_ylim(A, ylim, cur_ylims) ==
    IF py_eq(ylim, "auto") THEN autoscale_view(A, FALSE, TRUE)
    ELSE IF py_eq(ylim, "stretch") THEN set_ylim(A, stretch_lims(A.dataLim.y, cur_ylims))
    ELSE A

\* an update whose "auto" branch is missing for the x axis
update_xlim_without_auto(A, xlim, cur_xlims) ==
    IF py_eq(xlim, "stretch") THEN set_xlim(A, stretch_lims(A.dataLim.x, cur_xlims))
    ELSE A

\* lines 201-209 of update: the x axis
update_xlim(A, xlim, cur_xlims) ==
    IF py_eq(xlim, "auto") THEN autoscale_view(A, TRUE, FALSE)
    ELSE IF py_eq(xlim, "stretch") THEN set_xlim(A, stretch_lims(A.dataLim.x, cur_xlims))
    ELSE A

\* a constructor whose tuple test is inverted: a tuple is never passed on
construct_xlim_skips_tuple(A, xlim) == A

\* lines 228-231: a tuple is passed to ax.set_xlim / ax.set_ylim
construct_xlim(A, xlim) == IF ~isinstance_str(xlim) THEN set_xlim(A, xlim.tuple) ELSE A
construct_ylim(A, ylim) == IF ~isinstance_str(ylim) THEN set_ylim(A, ylim.tuple) ELSE A

NoPlt == [x_and_y |-> FALSE, x |-> NoArg, y |-> NoArg, fmt |-> NoArg,
          plot_kwargs |-> {}, controls |-> {}, line_call |-> "none"]
NoHist == [made |-> FALSE]
NoSc == [made |-> FALSE]
NoIm == [made |-> FALSE]
NoCall == [fn |-> "none"]

\* the xlim / ylim arguments passed to interactive_plot
PlotPolicies == {Str("auto"), Str("stretch")} \cup {Tup(t) : t \in LimTuples}

Init ==
    /\ called = "none"
    /\ outcome = "pending"
    /\ call = NoCall
    /\ params = <<>>
    /\ ax = FreshAxes
    /\ plt = NoPlt
    /\ hist = NoHist
    /\ sc = NoSc
    /\ im = NoIm

\* the params the controls hold for a set of control names
ParamsOf(keys) == [keys -> ParamVals]

\* interactive_plot(*args, xlim=xlim, ylim=ylim, title=title, **kwargs) on a
\* fresh Axes; p0 is the params gogogo_controls returns, x0 and y0 are the
\* extents of the data first plotted (none of them is read when the call
\* returns or raises before the figure is made)
interactive_plot(args, kwargs, xlim, ylim, title, p0, x0, y0) ==
    LET split == pop_plot_kwargs(kwargs)
        b     == bind_args(args)
    IN  /\ called' = "interactive_plot"
        /\ call' = [fn |-> "interactive_plot", args |-> args, kwargs |-> kwargs,
                    xlim |-> xlim, ylim |-> ylim, title |-> title]
        /\ IF b.status # "ok"
           THEN /\ outcome' = b.status
                /\ UNCHANGED <<params, ax, plt, hist, sc, im>>
           ELSE /\ title_fields(title) \subseteq split.kwargs
                /\ outcome' = "controls"
                /\ params' = p0
                /\ plt' = [x_and_y |-> b.x_and_y, x |-> b.x, y |-> b.y, fmt |-> b.fmt,
                           plot_kwargs |-> split.plot_kwargs,
                           controls |-> split.kwargs,
                           line_call |-> IF b.x_and_y THEN "plot(x, y)" ELSE "plot(y)"]
                /\ ax' = set_title(
                            construct_ylim(
                              construct_xlim(
                                autoscale_view(relim(ax, x0, y0), TRUE, TRUE), xlim), ylim),
                            title, p0)
                /\ UNCHANGED <<hist, sc, im>>

\* update(params, indices) of interactive_plot, called by the controls with
\* the new params p; x_ and y_ are the extents eval_xy / callable_else_value
\* return for p.  set_ydata leaves the x data of the line as it is.
plot_update(p, x_, y_) ==
    LET line_x == IF plt.x_and_y THEN x_ ELSE ax.dataLim.x
        cur_xlims == ax.xlim
        cur_ylims == ax.ylim
        A1 == relim(ax, line_x, y_)
        A2 == update_ylim(A1, call.ylim, cur_ylims)
        A3 == update_xlim(A2, call.xlim, cur_xlims)
    IN  /\ outcome = "controls"
        /\ plt.controls # {}
        /\ plt' = [plt EXCEPT !.line_call =
                       IF plt.x_and_y THEN "set_data(x, y)" ELSE "set_ydata(y)"]
        /\ ax' = set_title(A3, call.title, p)
        /\ params' = p
        /\ UNCHANGED <<called, outcome, call, hist, sc, im>>

\* the calls tried: every argument list and keyword set under the default
\* policies, and every pair of policies and every title for (y) and (x, y)
PlotCalls ==
    {[args |-> a, kwargs |-> k, xlim |-> Str("stretch"), ylim |-> Str("stretch"),
      title |-> None] : a \in ArgLists, k \in SUBSET KwargKeys}
    \cup
    {[args |-> a, kwargs |-> {"tau"}, xlim |-> xl, ylim |-> yl, title |-> t] :
        a \in {al \in ArgLists : Len(al) \in {1, 2} /\ al[Len(al)].kind = "data"},
        xl \in PlotPolicies, yl \in PlotPolicies, t \in Titles}

\* without x the line is plotted against range(len(y))
RangeExtents == {e \in Extents : e[1] = 0}

InteractivePlot ==
    /\ called = "none"
    /\ \E c \in PlotCalls :
         IF bind_args(c.args).status = "ok"
         THEN \E p0 \in ParamsOf(pop_plot_kwargs(c.kwargs).kwargs), y0 \in Extents,
                 x0 \in IF bind_args(c.args).x_and_y THEN Extents ELSE RangeExtents :
                  interactive_plot(c.args, c.kwargs, c.xlim, c.ylim, c.title, p0, x0, y0)
         ELSE interactive_plot(c.args, c.kwargs, c.xlim, c.ylim, c.title, <<>>, <<>>, <<>>)

PlotUpdate ==
    /\ called = "interactive_plot"
    /\ \E p \in ParamsOf(plt.controls), x_ \in Extents, y_ \in Extents :
         plot_update(p, x_, y_)

-----------------------------------------------------------------------------
(* interactive_hist *)

\* the longest array of bin heights is MaxHeight tall
MaxHeight == 2

\* the arrays f(**params) returns, by what np.histogram makes of them: the
\* first and last bin edge (bins.min() < bins.max()) and heights.max()
BinVals == 0..(2 * MaxData)
HistArrays ==
    {a \in [bins : BinVals \X BinVals, hmax : 1..MaxHeight] : a.bins[1] < a.bins[2]}

\* simple_hist: xlims = (bins.min(), bins.max()), ylims = (0, heights.max() * 1.05);
\* the y coordinates of a histogram are counted in hundredths
simple_hist(arr) ==
    [xlims |-> <<arr.bins[1], arr.bins[2]>>,
     ylims |-> <<0, arr.hmax * 105>>,
     new_patches |-> arr]

\* a stretch that sets the new limits without comparing them
stretch_sets_new(A, xlims_, ylims_) == set_xlim(set_ylim(A, ylims_), xlims_)

\* stretch(ax, xlims, ylims)
stretch(A, xlims_, ylims_) ==
    LET cur_xlims == A.xlim
        cur_ylims == A.ylim
        new_y == <<IF ylims_[1] < cur_ylims[1] THEN ylims_[1] ELSE cur_ylims[1],
                   IF ylims_[2] > cur_ylims[2] THEN ylims_[2] ELSE cur_ylims[2]>>
        new_x == <<IF xlims_[1] < cur_xlims[1] THEN xlims_[1] ELSE cur_xlims[1],
                   IF xlims_[2] > cur_xlims[2] THEN xlims_[2] ELSE cur_xlims[2]>>
    IN  set_xlim(set_ylim(A, new_y), new_x)

\* interactive_hist(f, **kwargs) on a fresh Axes; arr is f(**p0)
interactive_hist(p0, arr) ==
    LET h == simple_hist(arr)
    IN  /\ called' = "interactive_hist"
        /\ call' = [fn |-> "interactive_hist"]
        /\ outcome' = "controls"
        /\ params' = p0
        /\ hist' = [made |-> TRUE, paths |-> h.new_patches,
                    new_x |-> h.xlims, new_y |-> h.ylims, updates |-> FALSE]
        /\ ax' = set_ylim(set_xlim(ax, h.xlims), h.ylims)
        /\ UNCHANGED <<plt, sc, im>>

\* update(params, indices) of interactive_hist; arr is funcs[0](**p)
hist_update(p, arr) ==
    LET h == simple_hist(arr)
    IN  /\ outcome = "controls"
        /\ hist' = [made |-> TRUE, paths |-> h.new_patches,
                    new_x |-> h.xlims, new_y |-> h.ylims, updates |-> TRUE]
        /\ ax' = autoscale_view(stretch(ax, h.xlims, h.ylims), TRUE, TRUE)
        /\ params' = p
        /\ UNCHANGED <<called, outcome, call, plt, sc, im>>

InteractiveHist ==
    /\ called = "none"
    /\ \E p0 \in ParamsOf({"tau"}), arr \in HistArrays : interactive_hist(p0, arr)

HistUpdate ==
    /\ called = "interactive_hist"
    /\ \E p \in ParamsOf({"tau"}), arr \in HistArrays : hist_update(p, arr)

-----------------------------------------------------------------------------
(* interactive_scatter *)

\* Python's None, as an argument or a value
NoneVal == [none |-> TRUE]

\* the result of a user function called with params p; ok says whether
\* to_rgba_array or the colormap accepts it as colours
Value(p, ok) == [params |-> p, ok |-> ok]

\* the points eval_xy returns for params p, with their extents
Points(p, xe, ye) == [params |-> p, x |-> xe, y |-> ye]

\* str.lower() on the strings passed as a limit
lower(str) ==
    IF str \in {"STRETCH", "Stretch"} THEN "stretch"
    ELSE IF str \in {"AUTO", "Auto"} THEN "auto"
    ELSE str

\* lines 558-561
stretch_x_of(xlim) == IF isinstance_str(xlim) THEN xlim.str = "stretch" ELSE FALSE

\* lines 563-566
stretch_y_of(ylim) == IF isinstance_str(ylim) /\ lower(ylim.str) = "stretch" THEN TRUE ELSE FALSE

\* the arguments c, s, edgecolors and alpha of interactive_scatter
ScatterArgs == {"c", "s", "edgecolors", "alpha"}

\* the cache maps a function to the value it returned; NoEntry: not in cache
NoEntry == [absent |-> TRUE]
\* cache = {} and cache.clear()
EmptyCache == [k \in ScatterArgs |-> NoEntry]
\* cache[arg] = value
cache_put(cache, arg, value) == [cache EXCEPT ![arg] = value]

\* check_callable_xy / check_callable_alpha: arg is the name of the argument,
\* a function when it is in callables and None otherwise; fresh is what the
\* function returns when it is called now, raises whether that call raises
check_callable(cache, arg, callables, fresh, raises) ==
    IF arg \in callables
    THEN IF cache[arg] = NoEntry
         THEN IF raises
              THEN [raised |-> TRUE, cache |-> cache, value |-> NoneVal]
              ELSE [raised |-> FALSE, cache |-> cache_put(cache, arg, fresh), value |-> fresh]
         ELSE [raised |-> FALSE, cache |-> cache, value |-> cache[arg]]
    ELSE [raised |-> FALSE, cache |-> cache, value |-> NoneVal]

\* update_datalim_from_bbox(ax, bbox, stretch_x, stretch_y) of helpers: an
\* axis that stretches keeps the hull of its data limits and the box
update_datalim_from_bbox(A, bx, by, stretch_x, stretch_y) ==
    [A EXCEPT
       !.dataLim.x = IF stretch_x /\ @ # <<>>
                     THEN <<IF bx[1] < @[1] THEN bx[1] ELSE @[1],
                            IF bx[2] > @[2] THEN bx[2] ELSE @[2]>>
                     ELSE bx,
       !.dataLim.y = IF stretch_y /\ @ # <<>>
                     THEN <<IF by[1] < @[1] THEN by[1] ELSE @[1],
                            IF by[2] > @[2] THEN by[2] ELSE @[2]>>
                     ELSE by]

\* interactive_scatter(x, y, c=.., s=.., edgecolors=.., alpha=.., xlim=..,
\* ylim=.., title=.., **kwargs) on a fresh Axes with one pair of functions
\* x, y; the arguments named in callables are functions, the others None.
\* pts is what eval_xy returns for p0; every function returns a valid value.
interactive_scatter(c, p0, pts) ==
    LET val(arg) == IF arg \in c.callables THEN Value(p0, TRUE) ELSE NoneVal
    IN  /\ called' = "interactive_scatter"
        /\ call' = c
        /\ outcome' = "controls"
        /\ params' = p0
        /\ sc' = [made |-> TRUE,
                  stretch_x |-> stretch_x_of(c.xlim),
                  stretch_y |-> stretch_y_of(c.ylim),
                  cache |-> EmptyCache,
                  offsets |-> pts,
                  facecolor |-> val("c"), sizes |-> val("s"),
                  edgecolor |-> val("edgecolors"), alpha |-> val("alpha"),
                  updated |-> FALSE, raised |-> FALSE]
        /\ ax' = set_title(
                    autoscale_view(
                      update_datalim_from_bbox(ax, pts.x, pts.y, FALSE, FALSE), TRUE, TRUE),
                    c.title, p0)
        /\ UNCHANGED <<plt, hist, im>>

\* lines 584-587 of update: c, s, ec and a are fetched in this order through
\* the cache; raising is the function whose call raises ("none": no call
\* raises), c_ok whether the colours c returns are valid.  The values are
\* those of the locals when no call raised.
fetch_values(cache, fns, p, c_ok, raising) ==
    LET rc  == check_callable(cache, "c", fns, Value(p, c_ok), raising = "c")
        rs  == IF rc.raised THEN rc
               ELSE check_callable(rc.cache, "s", fns, Value(p, TRUE), raising = "s")
        rec == IF rs.raised THEN rs
               ELSE check_callable(rs.cache, "edgecolors", fns, Value(p, TRUE),
                                   raising = "edgecolors")
        ra  == IF rec.raised THEN rec
               ELSE check_callable(rec.cache, "alpha", fns, Value(p, TRUE), raising = "alpha")
    IN  [raised |-> ra.raised, cache |-> ra.cache,
         c |-> rc.value, s |-> rs.value, ec |-> rec.value, a |-> ra.value]

\* update(params, indices) of interactive_scatter with the new params p;
\* pts is what eval_xy returns ("xy" raising: eval_xy raises)
scatter_update(p, pts, c_ok, raising) ==
    \E r \in {fetch_values(sc.cache, call.callables, p, c_ok, raising)} :
      LET \* line 595: c is neither colours nor values to be colormapped
          bad_c == ~r.raised /\ r.c # NoneVal /\ ~r.c.ok
          done  == ~r.raised /\ ~bad_c
          A1 == set_title(ax, call.title, p)
          A2 == update_datalim_from_bbox(A1, pts.x, pts.y, sc.stretch_x, sc.stretch_y)
      IN  /\ outcome = "controls"
          /\ params' = p
          /\ IF raising = "xy"
             THEN /\ sc' = [sc EXCEPT !.updated = TRUE, !.raised = TRUE]
                  /\ ax' = A1
             ELSE /\ sc' = [sc EXCEPT
                              !.offsets = pts,
                              !.facecolor = IF done /\ r.c # NoneVal THEN r.c ELSE @,
                              !.edgecolor = IF done /\ r.ec # NoneVal THEN r.ec ELSE @,
                              !.sizes = IF done /\ r.s # NoneVal THEN r.s ELSE @,
                              !.alpha = IF done /\ r.a # NoneVal THEN r.a ELSE @,
                              !.cache = IF done THEN EmptyCache ELSE r.cache,
                              !.updated = TRUE,
                              !.raised = ~done]
                  /\ ax' = IF done THEN autoscale_view(A2, TRUE, TRUE) ELSE A1
          /\ UNCHANGED <<called, outcome, call, plt, hist, im>>

\* the xlim / ylim arguments passed to interactive_scatter
ScatterPolicies ==
    {Str("stretch"), Str("STRETCH"), Str("auto")} \cup {Tup(t) : t \in LimTuples}

\* the calls tried: every choice of functions among c, s, edgecolors and
\* alpha with x and y of one fixed extent, and every title with x and y of
\* any extent and xlim, ylim either one of them "stretch" or both the same
ScatterCalls ==
    {[fn |-> "interactive_scatter", callables |-> fs, xlim |-> Str("stretch"),
      ylim |-> Str("stretch"), title |-> None, extents |-> {<<0, 2>>}] :
        fs \in SUBSET ScatterArgs}
    \cup
    {[fn |-> "interactive_scatter", callables |-> {}, xlim |-> l[1], ylim |-> l[2],
      title |-> t, extents |-> Extents] :
        l \in {q \in ScatterPolicies \X ScatterPolicies :
                  q[1] = Str("stretch") \/ q[2] = Str("stretch") \/ q[1] = q[2]},
        t \in Titles}

InteractiveScatter ==
    /\ called = "none"
    /\ \E c \in ScatterCalls, p0 \in ParamsOf({"tau"}) :
         \E xe \in c.extents, ye \in c.extents :
            interactive_scatter(c, p0, Points(p0, xe, ye))

ScatterUpdate ==
    /\ called = "interactive_scatter"
    /\ \E p \in ParamsOf({"tau"}), xe \in call.extents, ye \in call.extents,
          c_ok \in BOOLEAN, raising \in {"none", "xy"} \cup call.callables :
            /\ (c_ok = FALSE) => ("c" \in call.callables)
            /\ scatter_update(p, Points(p, xe, ye), c_ok, raising)

-----------------------------------------------------------------------------
(* interactive_imshow *)

\* an argument vmin / vmax: None, a number, or a function of the params
Number(v) == [kind |-> "number", value |-> v]
Function(name) == [kind |-> "function", name |-> name]
is_None(arg) == arg = None
isinstance_Callable(arg) == arg.kind = "function"

\* the functions passed as vmin and vmax in the model:
\* vmin = lambda tau: tau and vmax = lambda tau: tau + 2
apply(f, p) == IF f.name = "vmin" THEN p.tau ELSE p.tau + 2

\* callable_else_value(arg, params) of helpers, for an arg that is not None
callable_else_value(arg, p) == IF isinstance_Callable(arg) THEN apply(arg, p) ELSE arg.value

\* the images X returns: ndim 2 (scalar data) or 3 (RGB(A)), with the
\* smallest and the largest value
Images == [ndim : {2, 3}, range : Extents]

\* im.norm.autoscale(A): vmin and vmax become A.min() and A.max()
norm_autoscale(image) == [vmin |-> image.range[1], vmax |-> image.range[2]]

\* the norm ax.imshow(new_data, vmin=.., vmax=..) leaves once the image is
\* drawn: a limit that was not given is taken from the data
imshow_norm(image, vmin, vmax, p) ==
    [vmin |-> IF is_None(vmin) THEN image.range[1] ELSE callable_else_value(vmin, p),
     vmax |-> IF is_None(vmax) THEN image.range[2] ELSE callable_else_value(vmax, p)]

\* interactive_imshow(X, vmin=.., vmax=.., autoscale_cmap=.., title=..,
\* **kwargs) on a fresh Axes; image is X(**p0), or X when X is an array
interactive_imshow(c, p0, image) ==
    /\ called' = "interactive_imshow"
    /\ call' = c
    /\ outcome' = "controls"
    /\ params' = p0
    /\ im' = [made |-> TRUE, data |-> image, norm |-> imshow_norm(image, c.vmin, c.vmax, p0),
              updated |-> FALSE, autoscaled |-> FALSE]
    /\ ax' = set_title(ax, c.title, p0)
    /\ UNCHANGED <<plt, hist, sc>>

\* lines 762-763: whether update calls im.norm.autoscale(new_data)
update_autoscales(autoscale_cmap, new_data, vmin, vmax) ==
    autoscale_cmap /\ (new_data.ndim # 3) /\ is_None(vmin) /\ is_None(vmax)

\* update(params, indices) of interactive_imshow with the new params p;
\* new_data is X(**p)
imshow_update(p, new_data) ==
    LET rescale == call.X_callable /\
                   update_autoscales(call.autoscale_cmap, new_data, call.vmin, call.vmax)
        n1 == IF rescale THEN norm_autoscale(new_data) ELSE im.norm
        n2 == IF isinstance_Callable(call.vmin) THEN [n1 EXCEPT !.vmin = apply(call.vmin, p)] ELSE n1
        n3 == IF isinstance_Callable(call.vmax) THEN [n2 EXCEPT !.vmax = apply(call.vmax, p)] ELSE n2
    IN  /\ outcome = "controls"
        /\ params' = p
        /\ ax' = set_title(ax, call.title, p)
        /\ im' = [im EXCEPT !.data = IF call.X_callable THEN new_data ELSE @,
                            !.norm = n3,
                            !.updated = TRUE,
                            !.autoscaled = rescale]
        /\ UNCHANGED <<called, outcome, call, plt, hist, sc>>

\* what a caller passes as vmin and as vmax
VminArgs == {None, Number(0), Function("vmin")}
VmaxArgs == {None, Number(2), Function("vmax")}

\* the calls tried: every kind of X, vmin and vmax and both values of
\* autoscale_cmap without a title, and the defaults with a title
ImshowCalls ==
    {[fn |-> "interactive_imshow", X_callable |-> xc, autoscale_cmap |-> ac,
      vmin |-> lo, vmax |-> hi, title |-> None] :
        xc \in BOOLEAN, ac \in BOOLEAN, lo \in VminArgs, hi \in VmaxArgs}
    \cup
    {[fn |-> "interactive_imshow", X_callable |-> TRUE, autoscale_cmap |-> TRUE,
      vmin |-> None, vmax |-> None, title |-> TauTitle]}

InteractiveImshow ==
    /\ called = "none"
    /\ \E c \in ImshowCalls, p0 \in ParamsOf({"tau"}), image \in Images :
         interactive_imshow(c, p0, image)

ImshowUpdate ==
    /\ called = "interactive_imshow"
    /\ \E p \in ParamsOf({"tau"}), new_data \in Images :
         /\ ~call.X_callable => new_data = im.data
         /\ imshow_update(p, new_data)

Next ==
    \/ InteractivePlot
    \/ PlotUpdate
    \/ InteractiveHist
    \/ HistUpdate
    \/ InteractiveScatter
    \/ ScatterUpdate
    \/ InteractiveImshow
    \/ ImshowUpdate

Spec == Init /\ [][Next]_vars

-----------------------------------------------------------------------------
(* Properties *)

Min(a, b) == IF a <= b THEN a ELSE b
Max(a, b) == IF a >= b THEN a ELSE b
\* the smallest range holding both ranges
Hull(r, q) == <<Min(r[1], q[1]), Max(r[2], q[2])>>
\* range outer holds range inner
Contains(outer, inner) == outer[1] <= inner[1] /\ inner[2] <= outer[2]

PlotMade == called = "interactive_plot" /\ outcome = "controls"
PlotUpdated == PlotMade /\ plt.line_call \in {"set_data(x, y)", "set_ydata(y)"}

\* C1: in interactive_plot with xlim="stretch" (ylim="stretch"), every step
\* after construction leaves that axis with the limits
\* [min(previous lower, data lower), max(previous upper, data upper)], so the
\* lower limit never increases and the upper limit never decreases.
C1_StretchOnlyGrows ==
    [][PlotMade =>
        /\ py_eq(call.xlim, "stretch") =>
              /\ ax'.xlim = Hull(ax.xlim, ax'.dataLim.x)
              /\ ax'.xlim[1] <= ax.xlim[1] /\ ax'.xlim[2] >= ax.xlim[2]
        /\ py_eq(call.ylim, "stretch") =>
              /\ ax'.ylim = Hull(ax.ylim, ax'.dataLim.y)
              /\ ax'.ylim[1] <= ax.ylim[1] /\ ax'.ylim[2] >= ax.ylim[2]]_vars

\* an update under stretch on both axes has kept limits wider than its data
C1_Witness ==
    /\ PlotUpdated /\ plt.x_and_y
    /\ py_eq(call.xlim, "stretch") /\ py_eq(call.ylim, "stretch")
    /\ ax.xlim = <<0, 2>> /\ ax.dataLim.x = <<2, 2>>
    /\ ax.ylim = <<0, 2>> /\ ax.dataLim.y = <<0, 0>>

\* C2: in interactive_plot a tuple xlim (ylim) is the limit of that axis
\* after construction and after every update, whatever the other axis'
\* policy is.
C2_TupleLimitsFixed ==
    PlotMade =>
        /\ ~isinstance_str(call.xlim) => ax.xlim = call.xlim.tuple
        /\ ~isinstance_str(call.ylim) => ax.ylim = call.ylim.tuple

\* an update set data reaching outside a tuple xlim, the y axis autoscaled
C2_Witness ==
    /\ PlotUpdated /\ plt.x_and_y
    /\ ~isinstance_str(call.xlim) /\ py_eq(call.ylim, "auto")
    /\ ~Contains(call.xlim.tuple, ax.dataLim.x)
    /\ ax.xlim = call.xlim.tuple

\* C3: in interactive_plot with xlim="auto" (ylim="auto") every step after
\* construction leaves that axis with the limits of the data just set,
\* whatever the limits were, and leaves the other axis with what its own
\* policy gives: a tuple axis unchanged, a stretch axis the hull of its old
\* limits and the data.
C3_AutoRescalesEveryUpdate ==
    [][PlotMade =>
        /\ py_eq(call.xlim, "auto") =>
              /\ ax'.xlim = ax'.dataLim.x
              /\ ~isinstance_str(call.ylim) => ax'.ylim = ax.ylim
              /\ py_eq(call.ylim, "stretch") => ax'.ylim = Hull(ax.ylim, ax'.dataLim.y)
        /\ py_eq(call.ylim, "auto") =>
              /\ ax'.ylim = ax'.dataLim.y
              /\ ~isinstance_str(call.xlim) => ax'.xlim = ax.xlim
              /\ py_eq(call.xlim, "stretch") => ax'.xlim = Hull(ax.xlim, ax'.dataLim.x)]_vars

\* an update under xlim="auto" and ylim="stretch" has shrunk the x range to
\* its data and kept a y range wider than its data
C3_Witness ==
    /\ PlotUpdated /\ plt.x_and_y
    /\ py_eq(call.xlim, "auto") /\ py_eq(call.ylim, "stretch")
    /\ ax.xlim = <<2, 2>> /\ ax.dataLim.x = <<2, 2>>
    /\ ax.ylim = <<0, 2>> /\ ax.dataLim.y = <<2, 2>>

\* C4: in interactive_hist every step after construction leaves limits that
\* hold both the limits before the step and the extents of the histogram
\* just computed (x: bins.min()..bins.max(), y: 0..1.05 * heights.max()).
C4_HistRangeNeverShrinks ==
    [][called = "interactive_hist" =>
        /\ Contains(ax'.xlim, ax.xlim) /\ Contains(ax'.ylim, ax.ylim)
        /\ Contains(ax'.xlim, hist'.paths.bins)
        /\ Contains(ax'.ylim, <<0, hist'.paths.hmax * 105>>)]_vars

\* an update drew a histogram narrower and lower than the range it kept
C4_Witness ==
    /\ called = "interactive_hist" /\ hist.updates
    /\ hist.paths.bins = <<1, 2>> /\ ax.xlim = <<0, 2>>
    /\ hist.paths.hmax = 1 /\ ax.ylim = <<0, 210>>

\* C7: in interactive_plot every keyword argument matplotlib.pyplot.plot
\* accepts is forwarded to ax.plot and is no control, every other keyword
\* argument is a control, and the forwarded keys and the control keys are
\* disjoint and together are the caller's kwargs.
C7_PlotKwargsPassedThrough ==
    PlotMade =>
        /\ \A k \in call.kwargs :
              IF k \in plot_accepted_kwargs
              THEN k \in plt.plot_kwargs /\ k \notin plt.controls
              ELSE k \in plt.controls
        /\ plt.plot_kwargs \cap plt.controls = {}
        /\ plt.plot_kwargs \cup plt.controls = call.kwargs

\* x was supplied: three arguments, or two with a second that is no str
XSupplied(args) == Len(args) = 3 \/ (Len(args) = 2 /\ args[2].kind # "str")

\* C8: interactive_plot binds one argument as y; two as (y, fmt) when the
\* second is a str and as (x, y) otherwise; three as (x, y, fmt); more than
\* three raise ValueError with no figure, control or callback made.  The
\* line is given x and y data exactly when x was supplied, else y data only.
C8_PositionalArguments ==
    called = "interactive_plot" =>
        LET args == call.args
            n == Len(args)
        IN  /\ n > 3 <=> outcome = "ValueError"
            /\ outcome = "ValueError" => ax = FreshAxes /\ plt = NoPlt /\ params = <<>>
            /\ n = 1 => plt.y = args[1] /\ plt.x = NoArg /\ plt.fmt = NoArg
            /\ (n = 2 /\ args[2].kind = "str") =>
                  plt.y = args[1] /\ plt.fmt = args[2] /\ plt.x = NoArg
            /\ (n = 2 /\ args[2].kind # "str") =>
                  plt.x = args[1] /\ plt.y = args[2] /\ plt.fmt = NoArg
            /\ n = 3 => plt.x = args[1] /\ plt.y = args[2] /\ plt.fmt = args[3]
            /\ outcome = "controls" =>
                  IF XSupplied(args)
                  THEN plt.line_call \in {"plot(x, y)", "set_data(x, y)"}
                  ELSE plt.line_call \in {"plot(y)", "set_ydata(y)"}

\* an update of a line made from (y, fmt) has set its y data only
C8_Witness ==
    /\ PlotMade /\ Len(call.args) = 2 /\ call.args[2].kind = "str"
    /\ plt.line_call = "set_ydata(y)" /\ plt.fmt = call.args[2]

ScatterProperties == {"offsets", "facecolor", "sizes", "edgecolor", "alpha"}

\* C6: in interactive_scatter every value an update applies to the scatter
\* artist (offsets, colour, size, edge colour, alpha) is computed from the
\* params passed to that very update, also after an earlier update raised
\* part-way.
C6_ValuesFromCurrentParams ==
    [][called = "interactive_scatter" =>
        \A f \in ScatterProperties : sc'[f] # sc[f] => sc'[f].params = params']_vars

\* C9: in interactive_scatter a tuple xlim (ylim) is the limit of that axis
\* after construction.
C9_ScatterTupleLimits ==
    (called = "interactive_scatter" /\ ~sc.updated) =>
        /\ ~isinstance_str(call.xlim) => ax.xlim = call.xlim.tuple
        /\ ~isinstance_str(call.ylim) => ax.ylim = call.ylim.tuple

\* C10: in interactive_imshow with autoscale_cmap=True and a callable X, an
\* update rescales the norm to the new image unless vmin and vmax are both
\* provided or the image is 3-dimensional.
C10_NormRescaledEveryUpdate ==
    (called = "interactive_imshow" /\ im.updated /\
     call.autoscale_cmap /\ call.X_callable) =>
        /\ im.autoscaled <=>
              ~((~is_None(call.vmin) /\ ~is_None(call.vmax)) \/ im.data.ndim = 3)
        /\ im.autoscaled =>
              im.norm = [vmin |-> im.data.range[1], vmax |-> im.data.range[2]]

\* C11: interactive_scatter reads xlim and ylim alike: a call that passes
\* the same value (a string in any letter case, or a tuple) as xlim and as
\* ylim stretches the x axis exactly when it stretches the y axis.
C11_PoliciesReadAlike ==
    (called = "interactive_scatter" /\ call.xlim = call.ylim) =>
        (sc.stretch_x <=> sc.stretch_y)

====
